---- MODULE Spec2Model ----
(***************************************************************************)
(* MT5Handler (src/app/mt5_handler.py): the adapter between trade signals  *)
(* and the MetaTrader 5 terminal.  The adapter is single-threaded; each    *)
(* public operation is a sequence of blocking terminal calls.  The model   *)
(* runs one invocation, from any state the adapter and the terminal may be *)
(* in when it starts, one action per step between two terminal calls,      *)
(* with an explicit stack of return labels for the nested calls            *)
(* (place_trade -> close_all_positions -> get_positions / close_position   *)
(* -> check_connection).  What the terminal answers to a call is chosen    *)
(* nondeterministically at that call.                                      *)
(***************************************************************************)
EXTENDS Integers, Sequences, FiniteSets, TLC

\* ------------------------------------------------------------- bounds
\* Most positions the terminal's book holds.
MaxPos == 3
\* Significand width of the model's binary floating point (Python: 53).
PREC == 3

\* ---------------------------------------------------- terminal constants
ORDER_TYPE_BUY == 0
ORDER_TYPE_SELL == 1
TRADE_RETCODE_DONE == 10009
TRADE_RETCODE_REJECT == 10006

\* ------------------------------------------------------ Python floats
\* A float is 0 or m * 2^e with 2^(PREC-1) <= m < 2^PREC; every operation
\* rounds its exact result to the nearest such value, ties to even.
RECURSIVE Pow2(_)
Pow2(n) == IF n <= 0 THEN 1 ELSE 2 * Pow2(n - 1)

FZero == [m |-> 0, e |-> 0]

\* The number of binary digits of n > 0.
RECURSIVE BitLen(_)
BitLen(n) == IF n = 0 THEN 0 ELSE 1 + BitLen(n \div 2)

\* n * 2^e (n >= 0) rounded to PREC digits, round-half-even.
FRound(n, e) ==
    IF n = 0 THEN FZero
    ELSE IF BitLen(n) <= PREC
         THEN [m |-> n * Pow2(PREC - BitLen(n)), e |-> e - (PREC - BitLen(n))]
         ELSE LET s    == BitLen(n) - PREC
                  q    == n \div Pow2(s)
                  r    == n % Pow2(s)
                  half == Pow2(s - 1)
                  up   == r > half \/ (r = half /\ q % 2 = 1)
                  q1   == IF up THEN q + 1 ELSE q
              IN  IF q1 = Pow2(PREC)
                  THEN [m |-> Pow2(PREC - 1), e |-> e + s + 1]
                  ELSE [m |-> q1, e |-> e + s]

\* The common exponent two floats are compared or added at.
MinExp(a, b) == IF a.m = 0 THEN b.e ELSE IF b.m = 0 THEN a.e
                ELSE IF a.e <= b.e THEN a.e ELSE b.e
\* a's significand at exponent e0 <= a.e.
Scaled(a, e0) == IF a.m = 0 THEN 0 ELSE a.m * Pow2(a.e - e0)

FLess(a, b) == Scaled(a, MinExp(a, b)) < Scaled(b, MinExp(a, b))
\* Python's min(a, b): b when b < a, else a.
FMin(a, b) == IF FLess(b, a) THEN b ELSE a
FAdd(a, b) == FRound(Scaled(a, MinExp(a, b)) + Scaled(b, MinExp(a, b)), MinExp(a, b))
\* a - b for b <= a.
FSub(a, b) == FRound(Scaled(a, MinExp(a, b)) - Scaled(b, MinExp(a, b)), MinExp(a, b))

\* a / n for a float a > 0 and an integer n >= 1, before rounding: the
\* quotient with PREC + 4 extra digits and a sticky last digit, and its
\* exponent.
FQuot(a, n) ==
    LET k   == PREC + 4
        num == a.m * Pow2(k)
    IN  [n |-> 2 * (num \div n) + (IF num % n = 0 THEN 0 ELSE 1), e |-> a.e - k - 1]

\* Python's a / n (n converted to float exactly), correctly rounded.
FDiv(a, n) == IF a.m = 0 THEN FZero ELSE FRound(FQuot(a, n).n, FQuot(a, n).e)

\* The float nearest to num / 2^den.
Flt(num, den) == FRound(num, 0 - den)

\* ------------------------------------------------------------ symbols
\* A symbol name is a stem followed by a suffix ("" when it has none):
\* "EURUSD" is [base |-> "EURUSD", sfx |-> ""], "EURUSD.r" has sfx ".r".
MT5_DEFAULT_SUFFIX == ".r"
Sym(b, x) == [base |-> b, sfx |-> x]
\* symbol.endswith(MT5_DEFAULT_SUFFIX)
EndsWithSuffix(s) == s.sfx = MT5_DEFAULT_SUFFIX
\* symbol + MT5_DEFAULT_SUFFIX when the suffix is configured and missing.
BrokerSymbol(s) ==
    IF MT5_DEFAULT_SUFFIX # "" /\ ~EndsWithSuffix(s)
    THEN Sym(s.base, MT5_DEFAULT_SUFFIX) ELSE s
\* symbol[:-len(MT5_DEFAULT_SUFFIX)]
StripSuffix(s) == Sym(s.base, "")

\* The symbols the terminal knows.
KnownSymbols == {Sym("EURUSD", ".r"), Sym("GBPUSD", ".r")}

\* str.upper() on the order types callers pass.
Upper(t) == CASE t = "buy" -> "BUY" [] t = "sell" -> "SELL"
              [] t = "long" -> "LONG" [] t = "short" -> "SHORT"
              [] t = "hold" -> "HOLD" [] OTHER -> t

\* ------------------------------------------------------- input domains
\* None is <<>>, a present optional value v is <<v>>.
None == <<>>
Some(v) == <<v>>
IsNone(o) == o = <<>>
Val(o) == o[1]

One == Flt(1, 0)
OneAndHalf == Flt(3, 1)
Two == Flt(2, 0)

\* The positions the terminal may hold when an invocation starts.
PosKinds ==
    { [symbol |-> Sym("EURUSD", ".r"), type |-> ORDER_TYPE_BUY,  volume |-> One],
      [symbol |-> Sym("GBPUSD", ".r"), type |-> ORDER_TYPE_SELL, volume |-> OneAndHalf] }
Books ==
    UNION { [1..n -> PosKinds] : n \in 0..MaxPos }
\* The book with its tickets: position i carries ticket i.
Ticketed(b) ==
    [i \in 1..Len(b) |->
        [ticket |-> i, symbol |-> b[i].symbol, type |-> b[i].type, volume |-> b[i].volume]]

SymbolArgs == {None, Some(Sym("EURUSD", "")), Some(Sym("XYZUSD", ""))}
TradeSymbols == {Sym("EURUSD", ""), Sym("XYZUSD", "")}
CloseVolumes == {None, Some(One)}
CloseOneVolumes == {None, Some(One), Some(Two)}
OrderTypes == {"BUY", "short", "hold"}
Ticks == {[bid |-> 10, ask |-> 12], [bid |-> 11, ask |-> 13]}
InitOutcomes == {"initialize_failed", "login_failed", "ok"}
Retcodes == {TRADE_RETCODE_DONE, TRADE_RETCODE_REJECT}

\* -------------------------------------------------------------- state
VARIABLES
    connected,   \* self.connected
    book,        \* the terminal's open positions, in ticket order
    lastTicket,  \* the last ticket the terminal gave out
    pc,          \* the step the running invocation is at ("idle": none runs)
    stk,         \* return labels of the calls in progress, innermost first
    ccv,         \* what check_connection returned last
    gp,          \* get_positions: argument and return value
    cp,          \* close_position: arguments, locals and return value
    cap,         \* close_all_positions: arguments, locals and return value
    pt,          \* place_trade: arguments, locals and return value
    las,         \* what list_available_symbols returned
    hist         \* what the running invocation has done at the terminal so far

vars == <<connected, book, lastTicket, pc, stk, ccv, gp, cp, cap, pt, las, hist>>

Nothing == [none |-> TRUE]
gp0 == [symbol |-> None, rv |-> <<>>]
cp0 == [position_id |-> 0, close_volume |-> None, position |-> Nothing,
        volume_to_close |-> FZero, tick |-> Nothing, request |-> Nothing,
         rv |-> Nothing]
cap0 == [symbol |-> None, close_volume |-> None, positions |-> <<>>, i |-> 0,
         closed_count |-> 0, failed_count |-> 0, results |-> <<>>,
         total_volume_closed |-> FZero, volume_per_position |-> None, rv |-> Nothing]
pt0 == [symbol |-> Sym("", ""), order_type |-> "", volume |-> FZero,
         close_existing |-> FALSE, close_result |-> Nothing,
         mt5_symbol |-> Sym("", ""), symbol_info |-> Nothing, selected |-> FALSE,
         tick |-> Nothing, request |-> Nothing,
         rv |-> Nothing]
\* op: the public operation invoked; reconnects: the initialize_mt5 calls
\* made so far (2 stands for two or more); reconnectFailed: one of them
\* failed; cpcalls: the arguments of the close_position calls; events: the
\* steps of place_trade in order; closeSends / openSends: the close and
\* opening requests handed to order_send; raised: an exception escaped.
hist0 == [op |-> "idle", reconnects |-> 0, reconnectFailed |-> FALSE, cpcalls |-> <<>>,
          events |-> <<>>, closeSends |-> 0, openSends |-> 0, raised |-> FALSE]

\* The state after MT5Handler(): __init__ ran initialize_mt5 once, which
\* set connected when the terminal accepted the login.
Init ==
    /\ connected \in BOOLEAN
    /\ \E b \in Books : book = Ticketed(b) /\ lastTicket = Len(b)
    /\ pc = "idle"
    /\ stk = <<>>
    /\ ccv = TRUE
    /\ gp = gp0 /\ cp = cp0 /\ cap = cap0 /\ pt = pt0
    /\ las = {}
    /\ hist = hist0

\* ------------------------------------------------------ call mechanics
\* Call the function entered at `entry`, to come back at `back`.
Call(entry, back) == pc' = entry /\ stk' = <<back>> \o stk
\* Return to the caller.
Return == pc' = Head(stk) /\ stk' = Tail(stk)
Log(ev) == [hist EXCEPT !.events = Append(@, ev)]

\* ---------------------------------------------------- check_connection
\* initialize_mt5 returns True only when initialize and login both succeed,
\* and only then sets self.connected.
InitializeOk(outcome) == outcome = "ok"

check_connection ==
    /\ pc = "cc"
    /\ \E ti \in BOOLEAN :
         IF ~connected \/ ~ti
         THEN \E o \in InitOutcomes :
                /\ connected' = InitializeOk(o)
                /\ ccv' = InitializeOk(o)
                /\ hist' = [hist EXCEPT !.reconnects = IF @ < 2 THEN @ + 1 ELSE @,
                                         !.reconnectFailed = @ \/ ~InitializeOk(o)]
         ELSE /\ ccv' = TRUE
              /\ UNCHANGED <<connected, hist>>
    /\ Return
    /\ UNCHANGED <<book, lastTicket, gp, cp, cap, pt, las>>

\* ----------------------------------------------- list_available_symbols
list_available_symbols ==
    /\ pc = "las"
    /\ Call("cc", "las_1")
    /\ UNCHANGED <<connected, book, lastTicket, ccv, gp, cp, cap, pt, las, hist>>

\* symbols_get() answers None or the symbols the terminal knows.
list_available_symbols_1 ==
    /\ pc = "las_1"
    /\ IF ~ccv THEN las' = {}
       ELSE \E all \in {{}, KnownSymbols} : las' = all
    /\ Return
    /\ UNCHANGED <<connected, book, lastTicket, ccv, gp, cp, cap, pt, hist>>

\* -------------------------------------------------------- get_positions
get_positions ==
    /\ pc = "gp"
    /\ Call("cc", "gp_1")
    /\ UNCHANGED <<connected, book, lastTicket, ccv, gp, cp, cap, pt, las, hist>>

\* positions_get(symbol=s) / positions_get(): the open positions, all or
\* those on s.
PositionsGet(s) ==
    IF IsNone(s) THEN book ELSE SelectSeq(book, LAMBDA p : p.symbol = Val(s))

\* position._asdict(), with the suffix stripped from the symbol and the
\* broker's symbol kept aside.
PositionDict(p) ==
    IF MT5_DEFAULT_SUFFIX # "" /\ EndsWithSuffix(p.symbol)
    THEN [ticket |-> p.ticket, symbol |-> StripSuffix(p.symbol),
          broker_symbol |-> p.symbol, type |-> p.type, volume |-> p.volume]
    ELSE [ticket |-> p.ticket, symbol |-> p.symbol, type |-> p.type, volume |-> p.volume]

\* The symbol get_positions asks the terminal for.
QuerySymbol(s) == IF IsNone(s) THEN None ELSE Some(BrokerSymbol(Val(s)))

get_positions_1 ==
    /\ pc = "gp_1"
    /\ IF ~ccv THEN gp' = [gp EXCEPT !.rv = <<>>]
       ELSE \E answered \in BOOLEAN :
              LET positions == IF answered THEN PositionsGet(QuerySymbol(gp.symbol)) ELSE <<>>
              IN  gp' = [gp EXCEPT !.rv = [i \in 1..Len(positions) |-> PositionDict(positions[i])]]
    /\ Return
    /\ UNCHANGED <<connected, book, lastTicket, ccv, cp, cap, pt, las, hist>>

\* ------------------------------------------------------- close_position
close_position ==
    /\ pc = "cp"
    /\ Call("cc", "cp_1")
    /\ hist' = [hist EXCEPT !.cpcalls =
                    Append(@, [ticket |-> cp.position_id, close_volume |-> cp.close_volume])]
    /\ UNCHANGED <<connected, book, lastTicket, ccv, gp, cp, cap, pt, las>>

\* The volume a close request asks for: the whole position, or the volume
\* asked for capped at the position's.
VolumeToCloseUncapped(close_volume, position_volume) ==
    IF IsNone(close_volume) THEN position_volume ELSE Val(close_volume)
VolumeToClose(close_volume, position_volume) ==
    IF IsNone(close_volume) THEN position_volume
    ELSE FMin(Val(close_volume), position_volume)

close_position_1 ==
    /\ pc = "cp_1"
    /\ IF ~ccv
       THEN /\ cp' = [cp EXCEPT !.rv = [success |-> FALSE, message |-> "MT5 connection failed"]]
            /\ Return
       ELSE \E answered \in BOOLEAN :
              LET positions == IF answered
                               THEN SelectSeq(book, LAMBDA p : p.ticket = cp.position_id)
                               ELSE <<>>
              IN  IF Len(positions) = 0
                  THEN /\ cp' = [cp EXCEPT !.rv = [success |-> FALSE,
                                     message |-> "Position {position_id} not found"]]
                       /\ Return
                  ELSE /\ cp' = [cp EXCEPT !.position = positions[1],
                                     !.volume_to_close =
                                         VolumeToClose(cp.close_volume, positions[1].volume)]
                       /\ pc' = "cp_tick"
                       /\ UNCHANGED stk
    /\ UNCHANGED <<connected, book, lastTicket, ccv, gp, cap, pt, las, hist>>

\* The order type that closes a position: the inverse of its own.
CloseType(position_type) ==
    IF position_type = ORDER_TYPE_BUY THEN ORDER_TYPE_SELL ELSE ORDER_TYPE_BUY
\* The price a close request carries: bid to close a long, ask to close a short.
ClosePriceSwapped(position_type, tick) ==
    IF position_type = ORDER_TYPE_BUY THEN tick.ask ELSE tick.bid
ClosePrice(position_type, tick) ==
    IF position_type = ORDER_TYPE_BUY THEN tick.bid ELSE tick.ask

\* symbol_info_tick answers None or a tick; the code reads .bid / .ask off
\* the answer unchecked, so None raises AttributeError, which nothing catches.
close_position_tick ==
    /\ pc = "cp_tick"
    /\ \E t \in Ticks \cup {Nothing} :
         IF t = Nothing
         THEN /\ pc' = "raised"
              /\ stk' = <<>>
              /\ hist' = [hist EXCEPT !.raised = TRUE]
              /\ UNCHANGED cp
         ELSE /\ cp' = [cp EXCEPT !.tick = t,
                          !.request = [position |-> cp.position_id,
                                       symbol   |-> cp.position.symbol,
                                       volume   |-> cp.volume_to_close,
                                       type     |-> CloseType(cp.position.type),
                                       price    |-> ClosePrice(cp.position.type, t)]]
              /\ pc' = "cp_send"
              /\ UNCHANGED <<stk, hist>>
    /\ UNCHANGED <<connected, book, lastTicket, ccv, gp, cap, pt, las>>

\* The terminal's book after it executed a close request: the position
\* loses the request's volume, and goes when none is left.
RECURSIVE Closed(_, _)
Closed(b, req) ==
    IF b = <<>> THEN <<>>
    ELSE IF Head(b).ticket # req.position THEN <<Head(b)>> \o Closed(Tail(b), req)
    ELSE IF FLess(req.volume, Head(b).volume)
         THEN <<[Head(b) EXCEPT !.volume = FSub(@, req.volume)]>> \o Tail(b)
         ELSE Tail(b)

\* What close_position returns for what order_send answered.
CloseResultVolumeAlways(answer, volume_to_close) ==
    IF answer = Nothing
    THEN [success |-> FALSE, message |-> "Close position failed. Error: {error_code}",
          volume_closed |-> volume_to_close]
    ELSE IF answer.retcode # TRADE_RETCODE_DONE
    THEN [success |-> FALSE, message |-> "Close position failed. Error code: {retcode}",
          details |-> answer, volume_closed |-> volume_to_close]
    ELSE [success |-> TRUE, message |-> "Position {position_id} closed (Volume: {volume_to_close})",
          details |-> answer, volume_closed |-> volume_to_close]
CloseResult(answer, volume_to_close) ==
    IF answer = Nothing
    THEN [success |-> FALSE, message |-> "Close position failed. Error: {error_code}"]
    ELSE IF answer.retcode # TRADE_RETCODE_DONE
    THEN [success |-> FALSE, message |-> "Close position failed. Error code: {retcode}",
          details |-> answer]
    ELSE [success |-> TRUE, message |-> "Position {position_id} closed (Volume: {volume_to_close})",
          details |-> answer, volume_closed |-> volume_to_close]

\* What order_send may answer: None, or a result with a return code.
SendAnswers == {Nothing} \cup {[retcode |-> r] : r \in Retcodes}

close_position_send ==
    /\ pc = "cp_send"
    /\ \E answer \in SendAnswers :
         /\ cp' = [cp EXCEPT !.rv = CloseResult(answer, cp.volume_to_close)]
         /\ book' = IF answer # Nothing /\ answer.retcode = TRADE_RETCODE_DONE
                    THEN Closed(book, cp.request) ELSE book
    /\ hist' = [hist EXCEPT !.closeSends = @ + 1]
    /\ Return
    /\ UNCHANGED <<connected, lastTicket, ccv, gp, cap, pt, las>>

\* ------------------------------------------------- close_all_positions
close_all_positions ==
    /\ pc = "cap"
    /\ Call("cc", "cap_1")
    /\ hist' = Log("close_all_begin")
    /\ UNCHANGED <<connected, book, lastTicket, ccv, gp, cp, cap, pt, las>>

close_all_positions_1 ==
    /\ pc = "cap_1"
    /\ IF ~ccv
       THEN /\ cap' = [cap EXCEPT !.rv = [success |-> FALSE, message |-> "MT5 connection failed"]]
            /\ hist' = Log("close_all_end")
            /\ Return
            /\ UNCHANGED gp
       ELSE /\ gp' = [gp0 EXCEPT !.symbol = cap.symbol]
            /\ Call("gp", "cap_2")
            /\ UNCHANGED <<cap, hist>>
    /\ UNCHANGED <<connected, book, lastTicket, ccv, cp, pt, las>>

\* The volume each close_position call is asked for: close_volume split
\* evenly when it is given and several positions match, else close_volume.
VolumePerPositionUnsplit(close_volume, n) == close_volume
VolumePerPosition(close_volume, n) ==
    IF ~IsNone(close_volume) /\ n > 1 THEN Some(FDiv(Val(close_volume), n))
    ELSE close_volume

close_all_positions_2 ==
    /\ pc = "cap_2"
    /\ IF Len(gp.rv) = 0
       THEN /\ cap' = [cap EXCEPT !.rv = [success |-> TRUE, message |-> "No positions to close",
                                          closed_count |-> 0]]
            /\ hist' = Log("close_all_end")
            /\ Return
       ELSE /\ cap' = [cap EXCEPT !.positions = gp.rv, !.i = 1,
                          !.volume_per_position =
                              VolumePerPosition(cap.close_volume, Len(gp.rv))]
            /\ pc' = "cap_loop"
            /\ UNCHANGED <<stk, hist>>
    /\ UNCHANGED <<connected, book, lastTicket, ccv, gp, cp, pt, las>>

\* The overall success flag: no close failed.
SuccessFlagAnyClosed(closed_count, failed_count) == closed_count > 0
SuccessFlag(closed_count, failed_count) == failed_count = 0

close_all_positions_loop ==
    /\ pc = "cap_loop"
    /\ IF cap.i <= Len(cap.positions)
       THEN /\ cp' = [cp0 EXCEPT !.position_id = cap.positions[cap.i].ticket,
                                 !.close_volume = cap.volume_per_position]
            /\ Call("cp", "cap_3")
            /\ UNCHANGED <<cap, hist>>
       ELSE /\ cap' = [cap EXCEPT !.rv =
                   [success |-> SuccessFlag(cap.closed_count, cap.failed_count),
                    message |-> "Closed {closed_count} positions, {failed_count} failed",
                    closed_count |-> cap.closed_count,
                    failed_count |-> cap.failed_count,
                    total_volume_closed |-> cap.total_volume_closed,
                    details |-> cap.results]]
            /\ hist' = Log("close_all_end")
            /\ Return
            /\ UNCHANGED cp
    /\ UNCHANGED <<connected, book, lastTicket, ccv, gp, pt, las>>

\* result.get('volume_closed', 0)
VolumeClosedOf(result) ==
    IF "volume_closed" \in DOMAIN result THEN result.volume_closed ELSE FZero

close_all_positions_3 ==
    /\ pc = "cap_3"
    /\ cap' = IF cp.rv.success
              THEN [cap EXCEPT !.results = Append(@, cp.rv), !.i = @ + 1,
                               !.closed_count = @ + 1,
                               !.total_volume_closed = FAdd(@, VolumeClosedOf(cp.rv))]
              ELSE [cap EXCEPT !.results = Append(@, cp.rv), !.i = @ + 1,
                               !.failed_count = @ + 1]
    /\ pc' = "cap_loop"
    /\ UNCHANGED <<connected, book, lastTicket, stk, ccv, gp, cp, pt, las, hist>>

\* ---------------------------------------------------------- place_trade
place_trade ==
    /\ pc = "pt"
    /\ Call("cc", "pt_1")
    /\ UNCHANGED <<connected, book, lastTicket, ccv, gp, cp, cap, pt, las, hist>>

\* After the connectivity check: close the symbol's positions first when
\* close_existing is set, else go straight to the symbol.
place_trade_1 ==
    /\ pc = "pt_1"
    /\ IF ~ccv
       THEN /\ pt' = [pt EXCEPT !.rv = [success |-> FALSE, message |-> "MT5 connection failed"]]
            /\ Return
            /\ UNCHANGED cap
       ELSE IF pt.close_existing
       THEN /\ cap' = [cap0 EXCEPT !.symbol = Some(pt.symbol)]
            /\ Call("cap", "pt_2")
            /\ UNCHANGED pt
       ELSE /\ pc' = "pt_sym"
            /\ UNCHANGED <<stk, cap, pt>>
    /\ UNCHANGED <<connected, book, lastTicket, ccv, gp, cp, las, hist>>

\* Where place_trade goes once close_all_positions has returned: its result
\* is logged and nothing else.
AfterCloseAllChecked(close_result) ==
    IF close_result.success THEN "pt_sleep" ELSE "pt_close_failed"
AfterCloseAllNoPause(close_result) == "pt_sym"
AfterCloseAll(close_result) == "pt_sleep"

place_trade_2 ==
    /\ pc = "pt_2"
    /\ pt' = [pt EXCEPT !.close_result = cap.rv]
    /\ pc' = AfterCloseAll(cap.rv)
    /\ UNCHANGED <<connected, book, lastTicket, stk, ccv, gp, cp, cap, las, hist>>

\* time.sleep(0.5)
place_trade_sleep ==
    /\ pc = "pt_sleep"
    /\ hist' = Log("sleep")
    /\ pc' = "pt_sym"
    /\ UNCHANGED <<connected, book, lastTicket, stk, ccv, gp, cp, cap, pt, las>>

\* symbol_info answers None (the symbol is unknown, or the terminal failed)
\* or the symbol's record, visible in the market watch or not; `selected` is
\* what symbol_select answers when the code comes to call it.
SymbolInfos(s) ==
    {Nothing} \cup (IF s \in KnownSymbols THEN {[visible |-> v] : v \in BOOLEAN} ELSE {})

\* What the symbol lookup decides: "not_found", "select_failed" or "ok".
SymbolStepLenient(info, selected) == "ok"
SymbolStep(info, selected) ==
    IF info = Nothing THEN "not_found"
    ELSE IF ~info.visible /\ ~selected THEN "select_failed"
    ELSE "ok"

place_trade_sym ==
    /\ pc = "pt_sym"
    /\ hist' = Log("symbol_info")
    /\ \E info \in SymbolInfos(BrokerSymbol(pt.symbol)), selected \in BOOLEAN :
         LET step == SymbolStep(info, selected)
         IN  IF step = "not_found"
             THEN /\ pt' = [pt EXCEPT !.mt5_symbol = BrokerSymbol(pt.symbol),
                               !.symbol_info = info,
                               !.selected = (info # Nothing /\ ~info.visible /\ selected),
                               !.rv = [success |-> FALSE,
                                       message |-> "Symbol {mt5_symbol} not found"]]
                  /\ Return
             ELSE IF step = "select_failed"
             THEN /\ pt' = [pt EXCEPT !.mt5_symbol = BrokerSymbol(pt.symbol),
                               !.symbol_info = info,
                               !.selected = (info # Nothing /\ ~info.visible /\ selected),
                               !.rv = [success |-> FALSE,
                                       message |-> "Failed to select symbol {mt5_symbol}"]]
                  /\ Return
             ELSE /\ pt' = [pt EXCEPT !.mt5_symbol = BrokerSymbol(pt.symbol),
                               !.symbol_info = info,
                               !.selected = (info # Nothing /\ ~info.visible /\ selected)]
                  /\ pc' = "pt_tick"
                  /\ UNCHANGED stk
    /\ UNCHANGED <<connected, book, lastTicket, ccv, gp, cp, cap, las>>

\* The order type and price side of a new order; Nothing for a direction
\* that is none of BUY, LONG, SELL, SHORT.
OrderSide(order_type, tick) ==
    IF Upper(order_type) \in {"BUY", "LONG"}
    THEN [type |-> ORDER_TYPE_BUY, price |-> tick.ask]
    ELSE IF Upper(order_type) \in {"SELL", "SHORT"}
    THEN [type |-> ORDER_TYPE_SELL, price |-> tick.bid]
    ELSE Nothing

place_trade_tick ==
    /\ pc = "pt_tick"
    /\ \E t \in Ticks \cup {Nothing} :
         IF t = Nothing
         THEN /\ pt' = [pt EXCEPT !.rv = [success |-> FALSE,
                               message |-> "Failed to get market data for {mt5_symbol}"]]
              /\ Return
         ELSE IF OrderSide(pt.order_type, t) = Nothing
         THEN /\ pt' = [pt EXCEPT !.tick = t,
                          !.rv = [success |-> FALSE,
                                  message |-> "Invalid order type: {order_type}"]]
              /\ Return
         ELSE /\ pt' = [pt EXCEPT !.tick = t,
                          !.request = [symbol |-> pt.mt5_symbol,
                                       volume |-> pt.volume,
                                       type   |-> OrderSide(pt.order_type, t).type,
                                       price  |-> OrderSide(pt.order_type, t).price]]
              /\ pc' = "pt_send"
              /\ UNCHANGED stk
    /\ UNCHANGED <<connected, book, lastTicket, ccv, gp, cp, cap, las, hist>>

\* What place_trade returns for what order_send answered.
TradeResult(answer) ==
    IF answer = Nothing
    THEN [success |-> FALSE, message |-> "Order failed. Error: {error_code}"]
    ELSE IF answer.retcode # TRADE_RETCODE_DONE
    THEN [success |-> FALSE, message |-> "Order failed. Error code: {retcode}",
          details |-> answer]
    ELSE [success |-> TRUE, message |-> "Order executed: {order_type} {symbol}",
          details |-> answer]

\* The terminal's book after it executed an opening request.
Opened(b, req, ticket) ==
    Append(b, [ticket |-> ticket, symbol |-> req.symbol, type |-> req.type,
               volume |-> req.volume])

\* The terminal fills an opening request only while its book has room.
place_trade_send ==
    /\ pc = "pt_send"
    /\ \E answer \in SendAnswers :
         /\ (answer # Nothing /\ answer.retcode = TRADE_RETCODE_DONE) => Len(book) < MaxPos
         /\ pt' = [pt EXCEPT !.rv = TradeResult(answer)]
         /\ IF answer # Nothing /\ answer.retcode = TRADE_RETCODE_DONE
            THEN /\ book' = Opened(book, pt.request, lastTicket + 1)
                 /\ lastTicket' = lastTicket + 1
            ELSE UNCHANGED <<book, lastTicket>>
    /\ hist' = [Log("order_send") EXCEPT !.openSends = @ + 1]
    /\ Return
    /\ UNCHANGED <<connected, ccv, gp, cp, cap, las>>

\* -------------------------------------------------------- close_session
\* mt5.shutdown() when connected; the whole operation is one step.
close_session ==
    /\ pc = "idle"
    /\ connected' = FALSE
    /\ pc' = "done"
    /\ hist' = [hist0 EXCEPT !.op = "close_session"]
    /\ UNCHANGED <<book, lastTicket, stk, ccv, gp, cp, cap, pt, las>>

\* --------------------------------------------------------- the callers
\* A caller invokes one public operation with arguments of its choice.
Invoke(op, entry) ==
    /\ pc = "idle"
    /\ pc' = entry
    /\ stk' = <<"done">>
    /\ hist' = [hist0 EXCEPT !.op = op]

InvokeListSymbols ==
    /\ Invoke("list_available_symbols", "las")
    /\ UNCHANGED <<connected, book, lastTicket, ccv, gp, cp, cap, pt, las>>

InvokeGetPositions ==
    /\ Invoke("get_positions", "gp")
    /\ \E s \in SymbolArgs : gp' = [gp0 EXCEPT !.symbol = s]
    /\ UNCHANGED <<connected, book, lastTicket, ccv, cp, cap, pt, las>>

InvokeClosePosition ==
    /\ Invoke("close_position", "cp")
    /\ \E t \in 1..(MaxPos + 1), v \in CloseOneVolumes :
         cp' = [cp0 EXCEPT !.position_id = t, !.close_volume = v]
    /\ UNCHANGED <<connected, book, lastTicket, ccv, gp, cap, pt, las>>

InvokeCloseAll ==
    /\ Invoke("close_all_positions", "cap")
    /\ \E s \in SymbolArgs, v \in CloseVolumes :
         cap' = [cap0 EXCEPT !.symbol = s, !.close_volume = v]
    /\ UNCHANGED <<connected, book, lastTicket, ccv, gp, cp, pt, las>>

InvokePlaceTrade ==
    /\ Invoke("place_trade", "pt")
    /\ \E s \in TradeSymbols, t \in OrderTypes, c \in BOOLEAN :
         pt' = [pt0 EXCEPT !.symbol = s, !.order_type = t, !.volume = One,
                           !.close_existing = c]
    /\ UNCHANGED <<connected, book, lastTicket, ccv, gp, cp, cap, las>>

Next ==
    \/ InvokeListSymbols \/ InvokeGetPositions \/ InvokeClosePosition
    \/ InvokeCloseAll \/ InvokePlaceTrade \/ close_session
    \/ check_connection
    \/ list_available_symbols \/ list_available_symbols_1
    \/ get_positions \/ get_positions_1
    \/ close_position \/ close_position_1 \/ close_position_tick \/ close_position_send
    \/ close_all_positions \/ close_all_positions_1 \/ close_all_positions_2
    \/ close_all_positions_loop \/ close_all_positions_3
    \/ place_trade \/ place_trade_1 \/ place_trade_2 \/ place_trade_sleep
    \/ place_trade_sym \/ place_trade_tick \/ place_trade_send

Spec == Init /\ [][Next]_vars

\* ============================================================ properties
IsResult(r) == "success" \in DOMAIN r
Failed(r) == IsResult(r) /\ ~r.success
\* close_all_positions has returned its summary of a non-empty list.
CapSummarised == IsResult(cap.rv) /\ Len(cap.positions) > 0
\* place_trade has returned.
PtReturned == hist.op = "place_trade" /\ pc = "done"

\* C1: when close_all_positions returns after finding a non-empty list of
\* matching positions, success is true iff every per-position result is a
\* success, closed_count + failed_count is the number of matching positions,
\* and close_position was called once per position, in order, whatever the
\* earlier results were.
C1_CloseAllCounts ==
    CapSummarised =>
        LET r == cap.rv
            n == Len(cap.positions)
        IN  /\ r.success = (\A i \in 1..Len(r.details) : r.details[i].success)
            /\ r.closed_count + r.failed_count = n
            /\ Len(r.details) = n
            /\ r.closed_count = Cardinality({i \in 1..n : r.details[i].success})
            /\ [i \in 1..Len(hist.cpcalls) |-> hist.cpcalls[i].ticket]
                 = [i \in 1..n |-> cap.positions[i].ticket]

\* A summary of a batch whose first close failed and whose second succeeded.
C1_Witness ==
    /\ CapSummarised
    /\ Len(cap.positions) >= 2
    /\ ~cap.rv.details[1].success
    /\ cap.rv.details[2].success
    /\ ~cap.rv.success

\* C2: the close request close_position builds asks for the position's whole
\* volume when no volume is given and for the smaller of the given volume and
\* the position's otherwise; it never asks for more than the position holds,
\* and a successful result reports exactly the volume the request asked for.
C2_CloseVolume ==
    /\ cp.request # Nothing =>
         LET remaining == cp.position.volume
             submitted == cp.request.volume
         IN  /\ ~FLess(remaining, submitted)
             /\ IsNone(cp.close_volume) => submitted = remaining
             /\ ~IsNone(cp.close_volume) =>
                  /\ submitted \in {Val(cp.close_volume), remaining}
                  /\ ~FLess(Val(cp.close_volume), submitted)
    /\ IsResult(cp.rv) =>
         /\ cp.rv.success =>
              /\ "volume_closed" \in DOMAIN cp.rv
              /\ cp.rv.volume_closed = cp.request.volume
         /\ "volume_closed" \in DOMAIN cp.rv =>
              ~FLess(cp.position.volume, cp.rv.volume_closed)

\* A close asked for more than the position holds, capped and successful.
C2_Witness ==
    /\ IsResult(cp.rv)
    /\ cp.rv.success
    /\ cp.close_volume = Some(Two)
    /\ FLess(cp.position.volume, Two)
    /\ cp.rv.volume_closed = cp.position.volume

\* The volumes the close_position calls of this invocation were asked for.
Requested(i) == hist.cpcalls[i].close_volume
\* The least exponent among the requested volumes and the total v: the unit
\* their exact sum is taken in.
SumExp(v) ==
    LET es == {v.e} \cup {Val(Requested(i)).e : i \in 1..Len(hist.cpcalls)}
    IN  CHOOSE e \in es : \A f \in es : e <= f
RECURSIVE SumRequested(_, _)
\* The exact sum of the first k requested volumes, in units of 2^e0.
SumRequested(k, e0) ==
    IF k = 0 THEN 0 ELSE Scaled(Val(Requested(k)), e0) + SumRequested(k - 1, e0)
IsPow2(n) == \E k \in 0..n : Pow2(k) = n
Abs(x) == IF x < 0 THEN 0 - x ELSE x

\* What C3 says of the calls whatever the total: one call per position; no
\* volume asked for when none is given; the total itself for one position;
\* the same quotient close_volume / N in every call for N > 1.
C3_Calls ==
    LET n == Len(cap.positions)
        v == cap.close_volume
    IN  /\ Len(hist.cpcalls) = n
        /\ IsNone(v) => \A i \in 1..n : IsNone(Requested(i))
        /\ (~IsNone(v) /\ n = 1) => Requested(1) = v
        /\ (~IsNone(v) /\ n > 1) => \A i \in 1..n : Requested(i) = Some(FDiv(Val(v), n))

C4_CloseAndPauseFirst ==
    hist.op = "place_trade" =>
        LET ev == hist.events
        IN  /\ pt.close_existing =>
                 \A i \in 1..Len(ev) :
                     ev[i] \in {"symbol_info", "order_send"} =>
                         /\ i > 3
                         /\ SubSeq(ev, 1, 3) = <<"close_all_begin", "close_all_end", "sleep">>
            /\ (pt.close_existing /\ pc = "pt_sym") =>
                 ev = <<"close_all_begin", "close_all_end", "sleep">>
            /\ ~pt.close_existing =>
                 \A i \in 1..Len(ev) :
                     ev[i] \notin {"close_all_begin", "close_all_end", "sleep"}

\* A place_trade that closed positions, paused, and then placed its order.
C4_Witness ==
    /\ PtReturned
    /\ pt.close_existing
    /\ pt.rv.success
    /\ hist.closeSends > 0
    /\ hist.events = <<"close_all_begin", "close_all_end", "sleep", "symbol_info", "order_send">>

\* Whether the finished operation reported failure (an empty list, for the
\* two operations that return lists).
OpFailed ==
    CASE hist.op = "list_available_symbols" -> las = {}
      [] hist.op = "get_positions"          -> gp.rv = <<>>
      [] hist.op = "close_position"         -> ~cp.rv.success
      [] hist.op = "close_all_positions"    -> ~cap.rv.success
      [] hist.op = "place_trade"            -> ~pt.rv.success
      [] OTHER                              -> TRUE

\* C5: within one invocation of a public operation at most one reconnect is
\* attempted, and an invocation in which a reconnect failed returns failure.
C5_ReconnectOnce ==
    /\ hist.reconnects <= 1
    /\ (pc = "done" /\ hist.reconnectFailed) => OpFailed

\* C6: no public operation lets an exception reach its caller, whatever the
\* terminal answers.
C6_NoException == pc # "raised"

\* The messages that contain "not found".
ContainsNotFound(message) ==
    message \in {"Symbol {mt5_symbol} not found", "Position {position_id} not found"}
SymbolLookedUp == \E i \in 1..Len(hist.events) : hist.events[i] = "symbol_info"
\* place_trade returned after symbol_info answered None.
SymbolUnresolved == PtReturned /\ SymbolLookedUp /\ pt.symbol_info = Nothing
\* place_trade returned after the symbol was hidden and symbol_select failed.
SymbolNotEnabled ==
    /\ PtReturned /\ SymbolLookedUp
    /\ pt.symbol_info # Nothing
    /\ ~pt.symbol_info.visible
    /\ ~pt.selected

\* C7 as stated: a place_trade whose symbol lookup returns nothing fails with
\* a "not found" message, one whose symbol cannot be enabled fails, and in
\* neither was order_send called at any point of the call.
C7_NoOrderSendAtAll ==
    /\ SymbolUnresolved =>
         /\ ~pt.rv.success
         /\ ContainsNotFound(pt.rv.message)
         /\ hist.openSends = 0 /\ hist.closeSends = 0
    /\ SymbolNotEnabled =>
         /\ ~pt.rv.success
         /\ hist.openSends = 0 /\ hist.closeSends = 0

\* C7 as amended: in both cases no order for the new trade is submitted; the
\* only requests order_send may have received are the closes of the
\* close-all step, so none when close_existing is unset, and none for a
\* symbol the terminal does not know.
C7_NoNewOrder ==
    /\ SymbolUnresolved =>
         /\ ~pt.rv.success
         /\ ContainsNotFound(pt.rv.message)
         /\ hist.openSends = 0
         /\ hist.closeSends > 0 => pt.close_existing
         /\ pt.mt5_symbol \notin KnownSymbols => hist.closeSends = 0
    /\ SymbolNotEnabled =>
         /\ ~pt.rv.success
         /\ hist.openSends = 0
         /\ hist.closeSends > 0 => pt.close_existing

\* A place_trade with close_existing set, for a symbol the terminal does not
\* know, while the terminal holds positions: "not found", nothing submitted.
C7_Witness ==
    /\ SymbolUnresolved
    /\ pt.mt5_symbol \notin KnownSymbols
    /\ pt.close_existing
    /\ Len(book) > 0
    /\ hist.closeSends = 0

\* A request's price is the side of the tick its order type trades at.
SideMatches(request, tick) ==
    /\ request.type \in {ORDER_TYPE_BUY, ORDER_TYPE_SELL}
    /\ request.type = ORDER_TYPE_BUY  => request.price = tick.ask
    /\ request.type = ORDER_TYPE_SELL => request.price = tick.bid

\* C8: every request built for order_send carries the ask when its type is
\* buy and the bid when its type is sell; a close is of the type opposite to
\* its position's, and an opening order of the type its direction names.
C8_PriceSide ==
    /\ cp.request # Nothing =>
         /\ SideMatches(cp.request, cp.tick)
         /\ cp.position.type = ORDER_TYPE_BUY  =>
              cp.request.type = ORDER_TYPE_SELL /\ cp.request.price = cp.tick.bid
         /\ cp.position.type = ORDER_TYPE_SELL =>
              cp.request.type = ORDER_TYPE_BUY /\ cp.request.price = cp.tick.ask
    /\ pt.request # Nothing =>
         /\ SideMatches(pt.request, pt.tick)
         /\ Upper(pt.order_type) \in {"BUY", "LONG"}   => pt.request.type = ORDER_TYPE_BUY
         /\ Upper(pt.order_type) \in {"SELL", "SHORT"} => pt.request.type = ORDER_TYPE_SELL

\* The close of a short position, submitted as a buy at the ask.
C8_Witness ==
    /\ hist.closeSends > 0
    /\ cp.request # Nothing
    /\ cp.position.type = ORDER_TYPE_SELL
    /\ cp.request.type = ORDER_TYPE_BUY
    /\ cp.request.price = cp.tick.ask

\* The result reports no work that succeeded.
ReportsNoSuccess(r) ==
    /\ "volume_closed" \notin DOMAIN r
    /\ "closed_count" \in DOMAIN r => r.closed_count = 0
    /\ "total_volume_closed" \in DOMAIN r => r.total_volume_closed = FZero

\* C9 as stated: a result of place_trade, close_position or
\* close_all_positions with success false has a non-empty message and
\* reports no work that succeeded.
C9_FailureReportsNothing ==
    \A r \in {pt.rv, cp.rv, cap.rv} :
        Failed(r) => r.message # "" /\ ReportsNoSuccess(r)

RECURSIVE VolumeOfSuccesses(_)
\* The volume_closed of the successes among per-position results, added up
\* in order as floats.
VolumeOfSuccesses(results) ==
    IF results = <<>> THEN FZero
    ELSE LET front == SubSeq(results, 1, Len(results) - 1)
             last  == results[Len(results)]
         IN  IF last.success THEN FAdd(VolumeOfSuccesses(front), last.volume_closed)
             ELSE VolumeOfSuccesses(front)

\* C9 as amended: every failed result has a non-empty message; a failed
\* result of place_trade or close_position carries besides it at most the
\* terminal's details, and no volume_closed; a failed result of
\* close_all_positions is either the bare connectivity failure or the batch
\* summary, with failed_count > 0 and with closed_count and
\* total_volume_closed counting the closes that did succeed.
C9_FailureShape ==
    /\ \A r \in {pt.rv, cp.rv} :
         Failed(r) => r.message # "" /\ DOMAIN r \subseteq {"success", "message", "details"}
    /\ Failed(cap.rv) =>
         /\ cap.rv.message # ""
         /\ \/ DOMAIN cap.rv = {"success", "message"}
            \/ /\ cap.rv.failed_count > 0
               /\ cap.rv.closed_count =
                    Cardinality({i \in 1..Len(cap.rv.details) : cap.rv.details[i].success})
               /\ cap.rv.total_volume_closed = VolumeOfSuccesses(cap.rv.details)

\* A failed batch summary that reports a close that succeeded.
C9_Witness ==
    /\ Failed(cap.rv)
    /\ "closed_count" \in DOMAIN cap.rv
    /\ cap.rv.closed_count > 0
    /\ cap.rv.total_volume_closed # FZero

\* C10: once place_trade has recorded a failed close-all result it is on its
\* way through the pause, the symbol lookup and the submission all the same,
\* and what it returns is decided by the new order alone: it succeeds
\* exactly when the new order was submitted and filled.
C10_CloseResultIgnored ==
    (hist.op = "place_trade" /\ Failed(pt.close_result)) =>
        /\ pc \in {"pt_sleep", "pt_sym", "pt_tick", "pt_send", "done"}
        /\ pc = "done" =>
             /\ SubSeq(hist.events, 1, 4)
                  = <<"close_all_begin", "close_all_end", "sleep", "symbol_info">>
             /\ DOMAIN pt.rv \subseteq {"success", "message", "details"}
             /\ pt.rv.message # pt.close_result.message
             /\ pt.rv.success =
                  (/\ hist.openSends = 1
                   /\ "details" \in DOMAIN pt.rv
                   /\ pt.rv.details.retcode = TRADE_RETCODE_DONE)

\* A place_trade that succeeded although its close-all step reported failure.
C10_Witness ==
    /\ PtReturned
    /\ Failed(pt.close_result)
    /\ pt.rv.success

====
